---- MODULE Spec2Model ----
(***************************************************************************)
(* Model of src/main.ts: run() and its helpers getActionInputs,            *)
(* processWithGitHubAPI and setActionOutputs.                              *)
(*                                                                         *)
(* run() is an async function with two suspension points (the repository   *)
(* request and wait).  Each synchronous segment between suspension points  *)
(* is one atomic action.  Every call to a collaborator (core.info,         *)
(* core.warning, core.error, core.debug, core.setOutput, core.setFailed,   *)
(* octokit.rest.repos.get, wait) is appended to `log` in program order.    *)
(*                                                                         *)
(* Strings are TLA+ strings; parseInt, String.prototype.trim and           *)
(* String.prototype.includes are computed character by character.          *)
(***************************************************************************)
EXTENDS Integers, Sequences, FiniteSets, TLC

VARIABLES
    env,          \* the configured inputs core.getInput reads (main.ts 21-23)
    pc,           \* where run() stands: "init", "awaitFetch", "awaitWait", "done"
    inputs,       \* run's const inputs (main.ts 125)
    repo,         \* the data the request resolved with (main.ts 61)
    fetchResult,  \* the promise of octokit.rest.repos.get (main.ts 61)
    waitResult,   \* the promise of wait (main.ts 71)
    log           \* the calls made on core, octokit and wait, in program order

vars == <<env, pc, inputs, repo, fetchResult, waitResult, log>>

(***************************************************************************)
(* Bounds of the model.                                                    *)
(***************************************************************************)
\* longest generated `milliseconds` input, in characters
MaxMsLen == 2
\* most fragments concatenated into a rejected promise's error message
MaxParts == 2

(***************************************************************************)
(* String primitives of the host language.                                 *)
(***************************************************************************)
RECURSIVE StringsOver(_, _)
StringsOver(A, n) ==
    IF n = 0 THEN {""}
    ELSE LET S == StringsOver(A, n - 1) IN S \cup {s \o a : s \in S, a \in A}

CharAt(s, i) == SubSeq(s, i, i)

IsWhiteSpace(c) == c \in {" "}

RECURSIVE TrimStart(_)
TrimStart(s) ==
    IF Len(s) > 0 /\ IsWhiteSpace(CharAt(s, 1))
    THEN TrimStart(SubSeq(s, 2, Len(s)))
    ELSE s

RECURSIVE TrimEnd(_)
TrimEnd(s) ==
    IF Len(s) > 0 /\ IsWhiteSpace(CharAt(s, Len(s)))
    THEN TrimEnd(SubSeq(s, 1, Len(s) - 1))
    ELSE s

\* String.prototype.trim
Trim(s) == TrimEnd(TrimStart(s))

\* String.prototype.includes
Includes(s, needle) ==
    \E i \in 1..(Len(s) - Len(needle) + 1) : SubSeq(s, i, i + Len(needle) - 1) = needle

Digits == <<"0", "1", "2", "3", "4", "5", "6", "7", "8", "9">>

IsDigit(c) == \E d \in 1..10 : Digits[d] = c

DigitVal(c) == (CHOOSE d \in 1..10 : Digits[d] = c) - 1

\* the longest prefix of decimal digits of s
RECURSIVE DigitPrefix(_)
DigitPrefix(s) ==
    IF Len(s) > 0 /\ IsDigit(CharAt(s, 1))
    THEN CharAt(s, 1) \o DigitPrefix(SubSeq(s, 2, Len(s)))
    ELSE ""

\* the value of a non-empty string of decimal digits
RECURSIVE DecimalValue(_)
DecimalValue(d) ==
    IF Len(d) = 0 THEN 0
    ELSE 10 * DecimalValue(SubSeq(d, 1, Len(d) - 1)) + DigitVal(CharAt(d, Len(d)))

\* a Number: NaN, or an integer
NaN == [isNaN |-> TRUE, val |-> 0]
Num(n) == [isNaN |-> FALSE, val |-> n]

\* parseInt(s, 10): leading white space is skipped, one sign is accepted, the
\* longest run of digits is read and whatever follows is ignored; no digit: NaN
parseInt(s) ==
    LET t    == TrimStart(s)
        neg  == Len(t) > 0 /\ CharAt(t, 1) = "-"
        sgn  == Len(t) > 0 /\ CharAt(t, 1) \in {"-", "+"}
        body == IF sgn THEN SubSeq(t, 2, Len(t)) ELSE t
        d    == DigitPrefix(body)
    IN  IF d = "" THEN NaN
        ELSE Num(IF neg THEN 0 - DecimalValue(d) ELSE DecimalValue(d))

\* the template literal's rendering of a Number
NumToString(n) == IF n.isNaN THEN "NaN" ELSE ToString(n.val)

\* Boolean.prototype.toString
BoolToString(b) == IF b THEN "true" ELSE "false"

\* a || d on strings: d when a is the empty string
OrDefault(a, d) == IF a = "" THEN d ELSE a

\* new Error(message)
NewError(m) == [isError |-> TRUE, message |-> m]

\* a thrown value that is not an Error object
NonError(v) == [isError |-> FALSE, message |-> v]

Pad2(n) == IF n < 10 THEN "0" \o ToString(n) ELSE ToString(n)

\* Date.prototype.toTimeString, for a clock reading <<hours, minutes, seconds>>
toTimeString(t) ==
    Pad2(t[1]) \o ":" \o Pad2(t[2]) \o ":" \o Pad2(t[3])
        \o " GMT+0000 (Coordinated Universal Time)"

(***************************************************************************)
(* The environment: configured inputs, ambient context, and what the       *)
(* collaborators may answer.                                               *)
(***************************************************************************)
InputNames == {"token", "milliseconds", "example-input"}

\* a configured input is <<>> when absent and <<s>> when set to the string s
Absent == <<>>
Set(s) == <<s>>

TokenInputs == {Absent, Set(""), Set(" "), Set("  "), Set("mock-github-token"), Set(" tok ")}

MsAlphabet == {"-", "+", "0", "7", "x", " "}

MsInputs ==
    {Absent} \cup {Set(s) : s \in StringsOver(MsAlphabet, MaxMsLen)}
             \cup {Set("500"), Set("-500"), Set("not-a-number")}

ExampleInputs == {Absent, Set(""), Set(" "), Set("test-input")}

\* github.context.repo
context == [repo |-> [owner |-> "owner", repo |-> "repo"]]

\* what octokit.rest.repos.get may resolve with
RepoData ==
    { [full_name |-> "owner/repo", name |-> "repo", owner |-> [login |-> "owner"]],
      [full_name |-> "octo/hello", name |-> "hello", owner |-> [login |-> "octo"]] }

MessageParts == {"rate limit", "Not Found", "boom"}

\* the message texts of the Error objects a collaborator may reject with
ErrorMessages ==
    StringsOver(MessageParts, MaxParts) \cup {"API rate limit exceeded", "Rate Limit"}

\* the values a collaborator may reject with
Rejections ==
    {NewError(m) : m \in ErrorMessages}
        \cup {NonError(v) : v \in {"rate limit", "Not Found", "oops"}}

\* the clock readings new Date() may return
ClockReadings == {<<9, 5, 7>>, <<23, 59, 59>>}

(***************************************************************************)
(* Calls to the collaborators, as recorded in log.                         *)
(***************************************************************************)
Info(m)         == <<"info", m>>
Warning(m)      == <<"warning", m>>
ErrorLog(m)     == <<"error", m>>
Debug(m)        == <<"debug", m>>
SetOutput(k, v) == <<"setOutput", k, v>>
SetFailed(m)    == <<"setFailed", m>>
ReposGet(o, r)  == <<"repos.get", o, r>>
Wait(ms)        == <<"wait", ms>>

\* how a synchronous piece of code completes: normally with a value, or by
\* throwing one; log holds the collaborator calls it made
Return(v, l) == [threw |-> FALSE, value |-> v, log |-> l]
Throw(v, l)  == [threw |-> TRUE, value |-> v, log |-> l]

(***************************************************************************)
(* src/main.ts.  A definition introduced as a variant "with" or "without"  *)
(* something is a faulty version of the definition that follows it, kept   *)
(* to show that a property depends on that definition; it is not used by   *)
(* Spec.                                                                   *)
(***************************************************************************)
\* core.getInput(name): the configured value, '' when absent, trimmed
getInput(e, name) ==
    LET val == IF e[name] = Absent THEN "" ELSE e[name][1]
    IN  Trim(val)

\* getActionInputs with the milliseconds check placed before the token check
getActionInputsMsFirst(e) ==
    LET token        == getInput(e, "token")
        milliseconds == OrDefault(getInput(e, "milliseconds"), "1000")
        exampleInput == OrDefault(getInput(e, "example-input"), "default")
        ms           == parseInt(milliseconds)
    IN  IF ms.isNaN \/ ms.val < 0
        THEN Throw(NewError("Invalid milliseconds value: " \o milliseconds
                                \o ". Must be a non-negative number."), <<>>)
        ELSE IF token = ""
        THEN Throw(NewError("Input required and not supplied: token"), <<>>)
        ELSE Return([token |-> token, milliseconds |-> milliseconds,
                     exampleInput |-> exampleInput],
                    << Info("Validated inputs: milliseconds=" \o milliseconds
                                \o ", example-input=" \o exampleInput) >>)

\* getActionInputs with the parsed number, not the string, in the message
getActionInputsEchoParsed(e) ==
    LET token        == getInput(e, "token")
        milliseconds == OrDefault(getInput(e, "milliseconds"), "1000")
        exampleInput == OrDefault(getInput(e, "example-input"), "default")
        ms           == parseInt(milliseconds)
    IN  IF token = ""
        THEN Throw(NewError("Input required and not supplied: token"), <<>>)
        ELSE IF ms.isNaN \/ ms.val < 0
        THEN Throw(NewError("Invalid milliseconds value: " \o NumToString(ms)
                                \o ". Must be a non-negative number."), <<>>)
        ELSE Return([token |-> token, milliseconds |-> milliseconds,
                     exampleInput |-> exampleInput],
                    << Info("Validated inputs: milliseconds=" \o milliseconds
                                \o ", example-input=" \o exampleInput) >>)

\* getActionInputs validating the defaulted milliseconds but returning the
\* string as read
getActionInputsRawMs(e) ==
    LET token        == getInput(e, "token")
        milliseconds == OrDefault(getInput(e, "milliseconds"), "1000")
        exampleInput == OrDefault(getInput(e, "example-input"), "default")
        ms           == parseInt(milliseconds)
    IN  IF token = ""
        THEN Throw(NewError("Input required and not supplied: token"), <<>>)
        ELSE IF ms.isNaN \/ ms.val < 0
        THEN Throw(NewError("Invalid milliseconds value: " \o milliseconds
                                \o ". Must be a non-negative number."), <<>>)
        ELSE Return([token |-> token, milliseconds |-> getInput(e, "milliseconds"),
                     exampleInput |-> exampleInput],
                    << Info("Validated inputs: milliseconds=" \o milliseconds
                                \o ", example-input=" \o exampleInput) >>)

getActionInputs(e) ==
    LET token        == getInput(e, "token")
        milliseconds == OrDefault(getInput(e, "milliseconds"), "1000")
        exampleInput == OrDefault(getInput(e, "example-input"), "default")
        ms           == parseInt(milliseconds)
    IN  IF token = ""
        THEN Throw(NewError("Input required and not supplied: token"), <<>>)
        ELSE IF ms.isNaN \/ ms.val < 0
        THEN Throw(NewError("Invalid milliseconds value: " \o milliseconds
                                \o ". Must be a non-negative number."), <<>>)
        ELSE Return([token |-> token, milliseconds |-> milliseconds,
                     exampleInput |-> exampleInput],
                    << Info("Validated inputs: milliseconds=" \o milliseconds
                                \o ", example-input=" \o exampleInput) >>)

\* processWithGitHubAPI up to its first await: the request is issued
beginProcessing(in) ==
    << Info("Starting GitHub API processing..."),
       ReposGet(context.repo.owner, context.repo.repo) >>

\* processWithGitHubAPI between the two awaits: wait is called
continueProcessing(in, data) ==
    LET ms == parseInt(in.milliseconds)
    IN  << Info("Processing repository: " \o data.full_name),
           Info("Processing for " \o NumToString(ms) \o " milliseconds..."),
           Wait(ms) >>

\* finishProcessing with the repository's short name in the result
finishProcessingShortName(in, data, now) ==
    [time      |-> toTimeString(now),
     result    |-> "Processed " \o in.exampleInput \o " for " \o data.name,
     processed |-> TRUE]

\* processWithGitHubAPI after the second await: the value it returns
finishProcessing(in, data, now) ==
    [time      |-> toTimeString(now),
     result    |-> "Processed " \o in.exampleInput \o " for " \o data.full_name,
     processed |-> TRUE]

\* classifyError with the "Not Found" test placed before the "rate limit" test
classifyErrorNotFoundFirst(error) ==
    IF error.isError
    THEN IF Includes(error.message, "Not Found")
         THEN Throw(NewError("Repository not found or token lacks necessary permissions."),
                    <<>>)
         ELSE IF Includes(error.message, "rate limit")
         THEN Throw(NewError("GitHub API rate limit exceeded. Please try again later."),
                    << Warning("Rate limit encountered. Consider adding retry logic.") >>)
         ELSE Throw(NewError("GitHub API error: " \o error.message), <<>>)
    ELSE Throw(error, <<>>)

\* classifyError without its call to core.warning
classifyErrorNoWarning(error) ==
    IF error.isError
    THEN IF Includes(error.message, "rate limit")
         THEN Throw(NewError("GitHub API rate limit exceeded. Please try again later."),
                    <<>>)
         ELSE IF Includes(error.message, "Not Found")
         THEN Throw(NewError("Repository not found or token lacks necessary permissions."),
                    <<>>)
         ELSE Throw(NewError("GitHub API error: " \o error.message), <<>>)
    ELSE Throw(error, <<>>)

\* classifyError without the instanceof test: every thrown value is wrapped
classifyErrorWrapAll(error) ==
    IF Includes(error.message, "rate limit")
    THEN Throw(NewError("GitHub API rate limit exceeded. Please try again later."),
               << Warning("Rate limit encountered. Consider adding retry logic.") >>)
    ELSE IF Includes(error.message, "Not Found")
    THEN Throw(NewError("Repository not found or token lacks necessary permissions."),
               <<>>)
    ELSE Throw(NewError("GitHub API error: " \o error.message), <<>>)

\* the catch clause of processWithGitHubAPI; it always throws
classifyError(error) ==
    IF error.isError
    THEN IF Includes(error.message, "rate limit")
         THEN Throw(NewError("GitHub API rate limit exceeded. Please try again later."),
                    << Warning("Rate limit encountered. Consider adding retry logic.") >>)
         ELSE IF Includes(error.message, "Not Found")
         THEN Throw(NewError("Repository not found or token lacks necessary permissions."),
                    <<>>)
         ELSE Throw(NewError("GitHub API error: " \o error.message), <<>>)
    ELSE Throw(error, <<>>)

setActionOutputs(outputs) ==
    << SetOutput("time", outputs.time),
       SetOutput("result", outputs.result),
       SetOutput("processed", BoolToString(outputs.processed)),
       Info("Action completed successfully with result: " \o outputs.result) >>

\* handleError whose else branch logs but does not call core.setFailed
handleErrorNoSignal(error) ==
    IF error.isError
    THEN << ErrorLog("Action failed: " \o error.message),
            Debug("Stack trace: Error: " \o error.message),
            SetFailed(error.message) >>
    ELSE << ErrorLog("An unexpected error occurred") >>

\* the catch clause of run; an Error built by new Error carries a stack
handleError(error) ==
    IF error.isError
    THEN << ErrorLog("Action failed: " \o error.message),
            Debug("Stack trace: Error: " \o error.message),
            SetFailed(error.message) >>
    ELSE << ErrorLog("An unexpected error occurred"),
            SetFailed("An unexpected error occurred") >>

(***************************************************************************)
(* The state machine of run().                                             *)
(***************************************************************************)
NoInputs == [token |-> "", milliseconds |-> "", exampleInput |-> ""]
NoRepo   == [full_name |-> "", name |-> "", owner |-> [login |-> ""]]
Idle     == [status |-> "idle"]
Pending  == [status |-> "pending"]
Resolved == [status |-> "resolved"]
Rejected(error) == [status |-> "rejected", error |-> error]

Init ==
    /\ env \in [InputNames -> TokenInputs \cup MsInputs \cup ExampleInputs]
    /\ env["token"] \in TokenInputs
    /\ env["milliseconds"] \in MsInputs
    /\ env["example-input"] \in ExampleInputs
    /\ pc = "init"
    /\ inputs = NoInputs
    /\ repo = NoRepo
    /\ fetchResult = Idle
    /\ waitResult = Idle
    /\ log = <<>>

\* run() from its call to its first await, or to its end when the inputs are
\* rejected
Start ==
    /\ pc = "init"
    /\ LET r == getActionInputs(env)
           l == << Info("Starting TypeScript Action...") >> \o r.log
       IN  IF r.threw
           THEN /\ log' = l \o handleError(r.value)
                /\ pc' = "done"
                /\ UNCHANGED <<inputs, fetchResult>>
           ELSE /\ inputs' = r.value
                /\ log' = l \o beginProcessing(r.value)
                /\ fetchResult' = Pending
                /\ pc' = "awaitFetch"
    /\ UNCHANGED <<env, repo, waitResult>>

\* the request resolves: run() continues to its second await
FetchResolves ==
    /\ pc = "awaitFetch"
    /\ \E data \in RepoData :
         /\ repo' = data
         /\ log' = log \o continueProcessing(inputs, data)
    /\ fetchResult' = Resolved
    /\ waitResult' = Pending
    /\ pc' = "awaitWait"
    /\ UNCHANGED <<env, inputs>>

\* FetchRejects issuing the request a second time after a first rejection
FetchRejectsRetry ==
    /\ pc = "awaitFetch"
    /\ \E error \in Rejections :
         LET c == classifyError(error)
         IN  IF Len(SelectSeq(log, LAMBDA ev : ev[1] = "repos.get")) = 1
             THEN /\ log' = log \o << ReposGet(context.repo.owner, context.repo.repo) >>
                  /\ UNCHANGED <<fetchResult, pc>>
             ELSE /\ fetchResult' = Rejected(error)
                  /\ log' = log \o c.log \o handleError(c.value)
                  /\ pc' = "done"
    /\ UNCHANGED <<env, inputs, repo, waitResult>>

\* the request rejects: both catch clauses run and run() ends
FetchRejects ==
    /\ pc = "awaitFetch"
    /\ \E error \in Rejections :
         LET c == classifyError(error)
         IN  /\ fetchResult' = Rejected(error)
             /\ log' = log \o c.log \o handleError(c.value)
    /\ pc' = "done"
    /\ UNCHANGED <<env, inputs, repo, waitResult>>

\* wait resolves: the outputs are composed and set, and run() ends
WaitResolves ==
    /\ pc = "awaitWait"
    /\ \E now \in ClockReadings :
         log' = log \o setActionOutputs(finishProcessing(inputs, repo, now))
                    \o << Info("TypeScript Action completed successfully!") >>
    /\ waitResult' = Resolved
    /\ pc' = "done"
    /\ UNCHANGED <<env, inputs, repo, fetchResult>>

\* WaitRejects with wait awaited outside the try block: no classification
WaitRejectsUnclassified ==
    /\ pc = "awaitWait"
    /\ \E error \in Rejections :
         /\ waitResult' = Rejected(error)
         /\ log' = log \o handleError(error)
    /\ pc' = "done"
    /\ UNCHANGED <<env, inputs, repo, fetchResult>>

\* wait rejects: it is awaited inside the try block of processWithGitHubAPI
WaitRejects ==
    /\ pc = "awaitWait"
    /\ \E error \in Rejections :
         LET c == classifyError(error)
         IN  /\ waitResult' = Rejected(error)
             /\ log' = log \o c.log \o handleError(c.value)
    /\ pc' = "done"
    /\ UNCHANGED <<env, inputs, repo, fetchResult>>

Next == Start \/ FetchResolves \/ FetchRejects \/ WaitResolves \/ WaitRejects

Spec == Init /\ [][Next]_vars

(***************************************************************************)
(* Reading the log.                                                        *)
(***************************************************************************)
Calls(kind) == SelectSeq(log, LAMBDA ev : ev[1] = kind)

\* the arguments of the calls of one kind, in order
Args(kind) == [i \in 1..Len(Calls(kind)) |-> Calls(kind)[i][2]]

Positions(kind) == {i \in 1..Len(log) : log[i][1] = kind}

Failures   == Args("setFailed")
ErrorLogs  == Args("error")
OutputKeys == Args("setOutput")

\* the values output key k was set to, in order
OutputValues(k) ==
    LET c == SelectSeq(log, LAMBDA ev : ev[1] = "setOutput" /\ ev[2] = k)
    IN  [i \in 1..Len(c) |-> c[i][3]]

StartsWith(s, prefix) == Len(s) >= Len(prefix) /\ SubSeq(s, 1, Len(prefix)) = prefix

\* a configured input that is absent, empty or white space only
IsBlank(v) == v = Absent \/ \A i \in 1..Len(v[1]) : CharAt(v[1], i) = " "

\* the milliseconds and example-input strings as the input store hands them over
RawMs      == getInput(env, "milliseconds")
RawExample == getInput(env, "example-input")

TokenMissingMessage == "Input required and not supplied: token"
InvalidMsMessage(raw) ==
    "Invalid milliseconds value: " \o raw \o ". Must be a non-negative number."
RateLimitMessage == "GitHub API rate limit exceeded. Please try again later."
NotFoundMessage  == "Repository not found or token lacks necessary permissions."
UnexpectedMessage == "An unexpected error occurred"

\* the failure message the specification assigns to an Error with message m
\* raised inside the fetch stage's classifier
ExpectedMessage(m) ==
    IF Includes(m, "rate limit") THEN RateLimitMessage
    ELSE IF Includes(m, "Not Found") THEN NotFoundMessage
    ELSE "GitHub API error: " \o m

RejectedWithError(r)    == r.status = "rejected" /\ r.error.isError
RejectedWithNonError(r) == r.status = "rejected" /\ ~r.error.isError
RateLimited(r) == RejectedWithError(r) /\ Includes(r.error.message, "rate limit")

Succeeded == OutputKeys = <<"time", "result", "processed">> /\ Failures = <<>>
Failed    == Len(Failures) = 1 /\ OutputKeys = <<>>

(***************************************************************************)
(* C1: a run that has ended has either set all three outputs (time, result *)
(* and processed, each once) without any failure signal, or has called     *)
(* setFailed exactly once without setting any output; a run that has not   *)
(* ended has done neither.                                                 *)
(***************************************************************************)
C1_TwoOutcomes ==
    /\ pc = "done" => (Succeeded /\ ~Failed) \/ (Failed /\ ~Succeeded)
    /\ pc # "done" => OutputKeys = <<>> /\ Failures = <<>>

C1_Witness ==
    /\ pc = "done"
    /\ fetchResult.status = "resolved"
    /\ RejectedWithNonError(waitResult)
    /\ Failed

(***************************************************************************)
(* C2: when the token input is absent, empty or white space only, whatever *)
(* the other inputs are, the run ends at once with the single failure      *)
(* message "Input required and not supplied: token", the error diagnostic  *)
(* "Action failed: Input required and not supplied: token", and no output. *)
(***************************************************************************)
C2_MissingToken ==
    (pc # "init" /\ IsBlank(env["token"])) =>
        /\ pc = "done"
        /\ Failures = << TokenMissingMessage >>
        /\ ErrorLogs = << "Action failed: " \o TokenMissingMessage >>
        /\ OutputKeys = <<>>

C2_Witness ==
    /\ pc = "done"
    /\ env["token"] = Set("  ")
    /\ env["milliseconds"] = Set("-7")
    /\ Failures = << TokenMissingMessage >>

(***************************************************************************)
(* C3: with a token supplied, a milliseconds input (as read from the input *)
(* store) that is not empty and does not parse as a base-10 integer, or    *)
(* parses negative, ends the run with the single failure message           *)
(* "Invalid milliseconds value: {raw}. Must be a non-negative number."     *)
(* echoing that string itself; an absent or empty input, or one that       *)
(* parses to an integer >= 0, passes validation (the request is issued)    *)
(* and never yields a failure message of that form.                        *)
(***************************************************************************)
C3_InvalidMilliseconds ==
    (pc # "init" /\ ~IsBlank(env["token"])) =>
        LET n == parseInt(RawMs)
        IN  IF RawMs # "" /\ (n.isNaN \/ n.val < 0)
            THEN /\ pc = "done"
                 /\ Failures = << InvalidMsMessage(RawMs) >>
                 /\ Calls("repos.get") = <<>>
            ELSE /\ Len(Calls("repos.get")) = 1
                 /\ \A i \in 1..Len(Failures) :
                        ~StartsWith(Failures[i], "Invalid milliseconds value")

C3_Witness ==
    /\ pc = "done"
    /\ env["token"] = Set("mock-github-token")
    /\ env["milliseconds"] = Set(" x")
    /\ Failures = << "Invalid milliseconds value: x. Must be a non-negative number." >>

(***************************************************************************)
(* C4: a run that ends without failure has set result to                   *)
(* "Processed {exampleInput} for {full_name}", with the full_name the      *)
(* request resolved with and the example-input input, or "default" when    *)
(* that input is absent or empty, and has set processed to "true".         *)
(***************************************************************************)
C4_ResultOutput ==
    (pc = "done" /\ Failures = <<>>) =>
        LET ex == IF RawExample = "" THEN "default" ELSE RawExample
        IN  /\ OutputValues("result")
                 = << "Processed " \o ex \o " for " \o repo.full_name >>
            /\ OutputValues("processed") = << "true" >>
            /\ repo \in RepoData

C4_Witness ==
    /\ pc = "done"
    /\ env["example-input"] = Absent
    /\ OutputValues("result") = << "Processed default for octo/hello" >>
    /\ OutputValues("processed") = << "true" >>

(***************************************************************************)
(* C5: when the request rejects with an Error, the run ends with exactly   *)
(* one failure message, chosen from the Error's text in priority order:    *)
(* the rate-limit message when it contains "rate limit" (also when it      *)
(* contains "Not Found" as well), else the not-found message when it       *)
(* contains "Not Found", else "GitHub API error: " followed by the text.   *)
(***************************************************************************)
C5_FetchErrorClassified ==
    RejectedWithError(fetchResult) =>
        /\ pc = "done"
        /\ Failures = << ExpectedMessage(fetchResult.error.message) >>
        /\ (Includes(fetchResult.error.message, "rate limit")
              /\ Includes(fetchResult.error.message, "Not Found"))
             => Failures = << RateLimitMessage >>

C5_Witness ==
    /\ RejectedWithError(fetchResult)
    /\ fetchResult.error.message = "Not Foundrate limit"
    /\ Failures = << RateLimitMessage >>

(***************************************************************************)
(* C6: when the request rejects with an Error whose text contains          *)
(* "rate limit", one warning is logged and then the run fails with the     *)
(* rate-limit message, the warning coming before the failure signal; a     *)
(* warning is logged in no run other than one in which a collaborator      *)
(* rejected with such an Error.                                            *)
(***************************************************************************)
C6_WarningOnRateLimit ==
    /\ RateLimited(fetchResult) =>
         /\ Len(Calls("warning")) = 1
         /\ Failures = << RateLimitMessage >>
         /\ \A w \in Positions("warning") : \A f \in Positions("setFailed") : w < f
    /\ Calls("warning") # <<>> => RateLimited(fetchResult) \/ RateLimited(waitResult)

C6_Witness ==
    /\ RateLimited(fetchResult)
    /\ fetchResult.error.message = "API rate limit exceeded"
    /\ \E w \in Positions("warning") : \E f \in Positions("setFailed") : w < f

(***************************************************************************)
(* C7: the request, the wait and each output are issued at most once and   *)
(* in that order; the request is issued only after the inputs validated    *)
(* and exactly once on every run whose inputs validate, the wait only      *)
(* after the request resolved, the outputs only after the wait resolved.   *)
(***************************************************************************)
C7_StagesInOrder ==
    /\ Len(Calls("repos.get")) <= 1
    /\ Len(Calls("wait")) <= 1
    /\ \A k \in {"time", "result", "processed"} : Len(OutputValues(k)) <= 1
    /\ \A f \in Positions("repos.get") :
         /\ ~getActionInputs(env).threw
         /\ \E v \in 1..(f - 1) :
              log[v][1] = "info" /\ StartsWith(log[v][2], "Validated inputs")
    /\ (pc # "init" /\ ~getActionInputs(env).threw) => Len(Calls("repos.get")) = 1
    /\ getActionInputs(env).threw => Calls("repos.get") = <<>>
    /\ \A w \in Positions("wait") :
         /\ fetchResult.status = "resolved"
         /\ \A f \in Positions("repos.get") : f < w
    /\ fetchResult.status = "rejected" => Calls("wait") = <<>>
    /\ \A o \in Positions("setOutput") :
         /\ waitResult.status = "resolved"
         /\ \A w \in Positions("wait") : w < o
    /\ OutputKeys # <<>> => Len(Calls("wait")) = 1

C7_Witness ==
    /\ pc = "done"
    /\ Succeeded
    /\ Len(Calls("repos.get")) = 1
    /\ Len(Calls("wait")) = 1

(***************************************************************************)
(* C8: when the request or the wait rejects with a value that is not an    *)
(* Error, the run ends with no warning, with the one error diagnostic      *)
(* "An unexpected error occurred", with that same text as its one failure  *)
(* message, and with no output set.                                        *)
(***************************************************************************)
C8_NonErrorThrown ==
    (RejectedWithNonError(fetchResult) \/ RejectedWithNonError(waitResult)) =>
        /\ pc = "done"
        /\ Calls("warning") = <<>>
        /\ ErrorLogs = << UnexpectedMessage >>
        /\ Failures = << UnexpectedMessage >>
        /\ OutputKeys = <<>>

C8_Witness ==
    /\ RejectedWithNonError(fetchResult)
    /\ fetchResult.error.message = "rate limit"
    /\ Failures = << UnexpectedMessage >>

(***************************************************************************)
(* C9: once the request has resolved, wait has been called exactly once,   *)
(* with the base-10 integer value of the milliseconds input, or with 1000  *)
(* when that input is absent or empty; wait is never called with NaN or    *)
(* with a negative number.                                                 *)
(***************************************************************************)
C9_DelayArgument ==
    /\ fetchResult.status = "resolved" =>
         Args("wait") = << Num(IF RawMs = "" THEN 1000 ELSE parseInt(RawMs).val) >>
    /\ \A i \in 1..Len(Args("wait")) :
         ~Args("wait")[i].isNaN /\ Args("wait")[i].val >= 0

C9_Witness ==
    /\ fetchResult.status = "resolved"
    /\ env["milliseconds"] = Set(" ")
    /\ Args("wait") = << Num(1000) >>

(***************************************************************************)
(* C10: when the request resolves and the wait then rejects with an Error, *)
(* the failure message is the classified one (rate-limit, not-found or     *)
(* "GitHub API error: " followed by the wait error's text); an error       *)
(* raised by input resolution is reported with its own message.            *)
(***************************************************************************)
C10_DelayErrorClassified ==
    /\ (fetchResult.status = "resolved" /\ RejectedWithError(waitResult)) =>
         /\ pc = "done"
         /\ Failures = << ExpectedMessage(waitResult.error.message) >>
    /\ (pc # "init" /\ fetchResult.status = "idle") =>
         /\ pc = "done"
         /\ Failures \in { << TokenMissingMessage >>, << InvalidMsMessage(RawMs) >> }

C10_Witness ==
    /\ fetchResult.status = "resolved"
    /\ RejectedWithError(waitResult)
    /\ waitResult.error.message = "boom"
    /\ Failures = << "GitHub API error: boom" >>

====
